---- MODULE Spec2Model ----
(***************************************************************************)
(* Model of src/components/ChatScreen.tsx: the voice-conversation session  *)
(* lifecycle (startConversation / stopConversation / cleanup and the live  *)
(* session callbacks), the turn transcript aggregation, the playback       *)
(* scheduling, the PCM16/base64 audio helpers, the text chat               *)
(* (handleSendMessage) and the simulated build and deploy pipelines.       *)
(*                                                                         *)
(* The browser event loop is modelled explicitly: a handler runs to its    *)
(* first await in one step; the continuation of an await is a microtask.   *)
(* Macrotasks (user clicks, permission settlement, session callbacks,      *)
(* clock ticks) only run when the microtask queue is empty.                *)
(***************************************************************************)
EXTENDS Integers, Sequences, FiniteSets, TLC

\* ------------------------------------------------------------------ bounds
MaxStarts == 2     \* startConversation invocations per behaviour
MaxWaiters == 1    \* stopConversation invocations suspended on one pending promise
MaxClips == 2      \* audio clips scheduled per behaviour
MaxLifeClips == 1  \* audio clips scheduled per behaviour of the lifecycle specification
MaxTime == 2       \* largest value of an output context's clock
MaxDur == 2        \* largest clip duration (clock units)
MaxBuf == 2        \* largest length of a turn transcription buffer
MaxItems == 3      \* largest transcript length
MaxSamples == 2    \* largest length of an encoded sample array
Sub == 2           \* float samples are multiples of 1 / (PcmScale * Sub)
Edge == 3          \* samples lie within Edge steps of an anchor value
MaxText == 1       \* largest length of the text typed into the input box
MaxReq == 2        \* handleSendMessage requests issued per behaviour
MaxLog == 5        \* transcript length up to which text, build and deploy entries are added
MaxFrames == 2     \* microphone frames captured per behaviour
MaxArrived == 3    \* inbound messages delivered per behaviour of the ordering specification

G == 1..MaxStarts  \* the n-th startConversation invocation and what it creates
Null == 0          \* a null ref

Max(a, b) == IF a >= b THEN a ELSE b

VARIABLES
  mounted,            \* the component is mounted
  isConversing,       \* useState, line 120
  isListening,        \* useState, line 121
  error,              \* useState, line 123: "none" | "mic" | "conversation"
  transcript,         \* useState, line 124
  sessionPromiseRef,  \* useRef, line 144: Null or the promise of start g
  audioContextRefs,   \* useRef, line 145
  transcriptRefs,     \* useRef, line 146
  nextStartTimeRef,   \* useRef, line 147
  startPc,            \* position of each startConversation invocation
  track,              \* readyState of the audio track of each MediaStream
  inCtx, outCtx,      \* state attribute of the AudioContexts of each start
  nodes,              \* scriptProcessor/streamSource pair created by onopen
  promise,            \* state of the promise returned by ai.live.connect
  sess,               \* state of the live session behind that promise
  clips,              \* every AudioBufferSourceNode started, in order
  clock,              \* currentTime of each output AudioContext
  micro,              \* the microtask queue: continuations of awaits
  waiters,            \* continuations awaiting a still pending promise
  last,               \* what the last step did: handler, stops completed, release calls
  codec,              \* the audio helper pipeline (createBlob .. decodeAudioData)
  isLoading,          \* useState, line 122
  inputText,          \* useState, line 127
  requests,           \* every handleSendMessage request issued, in order
  isBuilding,         \* useState, line 133
  isDeploying,        \* useState, line 136
  timers,             \* the interval and the timeout of handleBuildApk / handleDeployToPages
  captured,           \* microphone frames handed to onaudioprocess so far
  sent,               \* frames passed to sendRealtimeInput of each session, in order
  arrived             \* inbound messages handed to onmessage so far, in order

vars == <<mounted, isConversing, isListening, error, transcript, sessionPromiseRef,
          audioContextRefs, transcriptRefs, nextStartTimeRef, startPc, track, inCtx,
          outCtx, nodes, promise, sess, clips, clock, micro, waiters, last, codec,
          isLoading, inputText, requests, isBuilding, isDeploying, timers, captured,
          sent, arrived>>

\* The state of the text chat and of the simulated pipelines.
textVars == <<isLoading, inputText, requests, isBuilding, isDeploying, timers>>

\* What the voice handlers leave alone.
aside == <<clock, codec, textVars, captured, arrived>>

\* ------------------------------------------------------------------ strings
\* A string is a sequence of characters; " " stands for every whitespace character.

RECURSIVE TrimStart(_)
TrimStart(s) == IF s # <<>> /\ Head(s) = " " THEN TrimStart(Tail(s)) ELSE s

RECURSIVE TrimEnd(_)
TrimEnd(s) ==
  IF s # <<>> /\ s[Len(s)] = " " THEN TrimEnd(SubSeq(s, 1, Len(s) - 1)) ELSE s

\* String.prototype.trim
Trim(s) == TrimEnd(TrimStart(s))

Greeting == <<"g">>
InitialTranscript == <<[speaker |-> "AI", text |-> Greeting]>>


\* ------------------------------------------------------------------ the handlers' state
\* The values a handler reads and writes, as one record: a handler is an operator from
\* this record to this record, so that calls compose as they do in the source.
\* calls: the release calls made so far in this step; stopped: the stopConversation
\* invocations that ran to their end in this step (origin, promise awaited or Null).
\* env: what the environment does to the close calls of this step.
\* logged: the console.error calls of the catch handlers of lines 192, 193 and 206.
NoFailure == [closeThrows |-> FALSE, inputCloseRejects |-> FALSE, outputCloseRejects |-> FALSE]

Cur ==
  [isConversing |-> isConversing, isListening |-> isListening, error |-> error,
   transcript |-> transcript, sessionPromiseRef |-> sessionPromiseRef,
   audioContextRefs |-> audioContextRefs, transcriptRefs |-> transcriptRefs,
   nextStartTimeRef |-> nextStartTimeRef, track |-> track, inCtx |-> inCtx,
   outCtx |-> outCtx, nodes |-> nodes, promise |-> promise, sess |-> sess,
   clips |-> clips, micro |-> micro, waiters |-> waiters, startPc |-> startPc,
   sent |-> sent, env |-> NoFailure, calls |-> <<>>, stopped |-> <<>>, logged |-> <<>>]

Apply(h, op) ==
  /\ isConversing' = h.isConversing
  /\ isListening' = h.isListening
  /\ error' = h.error
  /\ transcript' = h.transcript
  /\ sessionPromiseRef' = h.sessionPromiseRef
  /\ audioContextRefs' = h.audioContextRefs
  /\ transcriptRefs' = h.transcriptRefs
  /\ nextStartTimeRef' = h.nextStartTimeRef
  /\ track' = h.track
  /\ inCtx' = h.inCtx
  /\ outCtx' = h.outCtx
  /\ nodes' = h.nodes
  /\ promise' = h.promise
  /\ sess' = h.sess
  /\ clips' = h.clips
  /\ micro' = h.micro
  /\ waiters' = h.waiters
  /\ startPc' = h.startPc
  /\ sent' = h.sent
  /\ last' = [op |-> op, stopped |-> h.stopped, calls |-> h.calls, logged |-> h.logged,
              env |-> h.env]

\* A step of a handler that completes no stop and makes no release call.
Did(op) ==
  [op |-> op, stopped |-> <<>>, calls |-> <<>>, logged |-> <<>>, env |-> NoFailure]

\* clearInterval on whichever interval is running, lines 172-173
ClearIntervals(t) ==
  [k \in DOMAIN t |-> IF t[k] = "interval" THEN "none" ELSE t[k]]

Log(h, what, id) == [h EXCEPT !.logged = Append(@, <<what, id>>)]

Call(h, name, id) == [h EXCEPT !.calls = Append(@, <<name, id>>)]

\* A continuation of an await. k = "stop": stopConversation suspended at line 203 on
\* promise g. k = "msg": onmessage of session g suspended at line 465, having read the
\* clock of output context out as now, with a clip of duration dur.
\* k = "send": the then-callback of line 430 for frame on promise g.
StopCont(p, origin) ==
  [k |-> "stop", g |-> p, origin |-> origin, out |-> Null, dur |-> 0, now |-> 0,
   frame |-> 0]
MsgCont(g, out, dur, now) ==
  [k |-> "msg", g |-> g, origin |-> "none", out |-> out, dur |-> dur, now |-> now,
   frame |-> 0]
SendCont(p, f) ==
  [k |-> "send", g |-> p, origin |-> "none", out |-> Null, dur |-> 0, now |-> 0,
   frame |-> f]

\* ------------------------------------------------------------------ cleanup, lines 184-197
\* MediaStreamTrack.stop(): the track ends; on an ended track it changes nothing.
TrackStop(h, g) == [Call(h, "track.stop", g) EXCEPT !.track[g] = "ended"]

\* AudioNode.disconnect()
NodesDisconnect(h, sp, ss) ==
  LET h1 == IF sp # Null
            THEN [Call(h, "scriptProcessor.disconnect", sp) EXCEPT !.nodes[sp] = "disconnected"]
            ELSE h
  IN IF ss # Null
     THEN [Call(h1, "streamSource.disconnect", ss) EXCEPT !.nodes[ss] = "disconnected"]
     ELSE h1

\* AudioContext.close(), modelled as taking effect at the call. When the promise it
\* returns rejects, the context is not closed and the catch handler logs.
ContextsClose(h, i, o) ==
  LET h1 == IF i # Null /\ h.inCtx[i] # "closed"
            THEN IF h.env.inputCloseRejects
                 THEN Log(Call(h, "input.close", i), "input.close", i)
                 ELSE [Call(h, "input.close", i) EXCEPT !.inCtx[i] = "closed"]
            ELSE h
  IN IF o # Null /\ h1.outCtx[o] # "closed"
     THEN IF h.env.outputCloseRejects
          THEN Log(Call(h1, "output.close", o), "output.close", o)
          ELSE [Call(h1, "output.close", o) EXCEPT !.outCtx[o] = "closed"]
     ELSE h1

\* sources.forEach(source => source.stop()), in insertion order
RECURSIVE SourcesStop(_, _, _)
SourcesStop(h, srcs, c) ==
  IF c > Len(h.clips) THEN h
  ELSE IF c \in srcs
       THEN SourcesStop([Call(h, "source.stop", c) EXCEPT
                           !.clips[c].st = IF @ = "scheduled" THEN "stopped" ELSE @],
                        srcs, c + 1)
       ELSE SourcesStop(h, srcs, c + 1)

\* cleanup without line 196: the playback set is not cleared.
cleanupKeepsSources(h) ==
  LET r == h.audioContextRefs
      h1 == IF r.stream # Null THEN TrackStop(h, r.stream) ELSE h
      h2 == NodesDisconnect(h1, r.scriptProcessor, r.streamSource)
      h3 == ContextsClose(h2, r.input, r.output)
  IN SourcesStop(h3, r.sources, 1)

\* cleanup with lines 192-193 moved before line 187: the contexts are closed first.
cleanupContextsFirst(h) ==
  LET r == h.audioContextRefs
      h1 == ContextsClose(h, r.input, r.output)
      h2 == IF r.stream # Null THEN TrackStop(h1, r.stream) ELSE h1
      h3 == NodesDisconnect(h2, r.scriptProcessor, r.streamSource)
      h4 == SourcesStop(h3, r.sources, 1)
  IN [h4 EXCEPT !.audioContextRefs.sources = {}]

cleanup(h) ==
  LET r == h.audioContextRefs
      h1 == IF r.stream # Null THEN TrackStop(h, r.stream) ELSE h
      h2 == NodesDisconnect(h1, r.scriptProcessor, r.streamSource)
      h3 == ContextsClose(h2, r.input, r.output)
      h4 == SourcesStop(h3, r.sources, 1)
  IN [h4 EXCEPT !.audioContextRefs.sources = {}]

\* ------------------------------------------------------------------ stopConversation, lines 199-213
\* LiveSession.close(): asks the transport to close; onclose follows. When it throws,
\* the session is left as it was.
SessionClose(h, g) ==
  IF h.env.closeThrows
  THEN Call(h, "session.close", g)
  ELSE [Call(h, "session.close", g) EXCEPT !.sess[g] = IF @ = "open" THEN "closing" ELSE @]

\* lines 211-212
StopTail(h, origin, p) ==
  [cleanup(h) EXCEPT !.isConversing = FALSE,
                     !.stopped = Append(@, [origin |-> origin, g |-> p])]

\* startPc remembers that stopConversation was invoked while a start awaited the
\* microphone ("mic" becomes "micStop").
MarkStop(h) ==
  [h EXCEPT !.startPc = [g \in G |-> IF @[g] = "mic" THEN "micStop" ELSE @[g]]]

\* lines 200-203 (to the await), or to the end when no session is referenced
stopConversation(h, origin) ==
  LET h1 == [MarkStop(h) EXCEPT !.isListening = FALSE]
      p == h.sessionPromiseRef
  IN IF p # Null
     THEN IF h1.promise[p] = "pending"
          THEN [h1 EXCEPT !.waiters[p] = Append(@, StopCont(p, origin))]
          ELSE [h1 EXCEPT !.micro = Append(@, StopCont(p, origin))]
     ELSE StopTail(h1, origin, Null)

\* lines 203-212 without the try of line 202: a rejected await or a throwing
\* session.close() ends stopConversation there.
StopResumeNoCatch(h, k) ==
  IF h.promise[k.g] = "resolved"
  THEN IF h.env.closeThrows
       THEN SessionClose(h, k.g)
       ELSE StopTail([SessionClose(h, k.g) EXCEPT !.sessionPromiseRef = Null], k.origin, k.g)
  ELSE h

\* lines 203-212, after the await: a rejected promise and a throwing session.close()
\* go to the catch block, which logs; the finally block clears the reference.
StopResume(h, k) ==
  LET h1 == IF h.promise[k.g] = "resolved"
            THEN IF h.env.closeThrows
                 THEN Log(SessionClose(h, k.g), "Error closing session:", k.g)
                 ELSE SessionClose(h, k.g)
            ELSE Log(h, "Error closing session:", k.g)
      h2 == [h1 EXCEPT !.sessionPromiseRef = Null]
  IN StopTail(h2, k.origin, k.g)

\* The stop invocations one more suspension on the referenced promise would exceed.
CanSuspend ==
  IF sessionPromiseRef = Null THEN TRUE ELSE Len(waiters[sessionPromiseRef]) < MaxWaiters


\* ------------------------------------------------------------------ startConversation, lines 391-493
NoRefs ==
  [input |-> Null, output |-> Null, scriptProcessor |-> Null, streamSource |-> Null,
   sources |-> {}, stream |-> Null]

Unused == {g \in G : startPc[g] = "unused"}

\* The start button, line 740, is rendered only while isConversing is false.
\* lines 392-399, to the await of getUserMedia
StartCall ==
  /\ mounted /\ ~isConversing /\ micro = <<>>
  /\ Unused # {}
  /\ LET g == CHOOSE x \in Unused : \A y \in Unused : x <= y
     IN Apply([Cur EXCEPT !.isListening = TRUE, !.isConversing = TRUE, !.error = "none",
                          !.startPc[g] = "mic"],
              "start")
  /\ UNCHANGED <<mounted, aside>>

\* lines 488-491
StartCatch(h) ==
  [h EXCEPT !.error = "mic", !.isListening = FALSE, !.isConversing = FALSE]

\* lines 400-410: the stream, both contexts, a fresh playback set, the connect call
StartAcquire(h, g) ==
  [h EXCEPT !.audioContextRefs.stream = g,
            !.track[g] = "live",
            !.inCtx[g] = "running",
            !.outCtx[g] = "running",
            !.audioContextRefs.input = g,
            !.audioContextRefs.output = g,
            !.audioContextRefs.sources = {},
            !.nextStartTimeRef = 0,
            !.sessionPromiseRef = g,
            !.promise[g] = "pending",
            !.sess[g] = "connecting"]

\* The microphone request of start g settles and start g runs to its end.
\* "denied": getUserMedia rejects. "throwInput" / "throwOutput": the stream is
\* granted and the AudioContext constructor of line 403 / 404 throws.
MicOutcome(h, g, o) ==
  CASE o = "ok" -> StartAcquire(h, g)
    [] o = "denied" -> StartCatch(h)
    [] o = "throwInput" ->
         StartCatch([h EXCEPT !.audioContextRefs.stream = g, !.track[g] = "live"])
    [] o = "throwOutput" ->
         StartCatch([h EXCEPT !.audioContextRefs.stream = g, !.track[g] = "live",
                              !.inCtx[g] = "running"])

MicSettle(g, o) ==
  /\ micro = <<>>
  /\ startPc[g] \in {"mic", "micStop"}
  /\ Apply(MicOutcome([Cur EXCEPT !.startPc[g] = IF o = "ok" THEN "done" ELSE "failed"],
                      g, o),
           CASE o = "ok" -> "micGranted" [] o = "denied" -> "micDenied" [] OTHER -> "micThrew")
  /\ UNCHANGED <<mounted, aside>>

\* A settled promise hands the continuations awaiting it to the microtask queue.
Settle(h, g, how) ==
  [h EXCEPT !.promise[g] = how, !.micro = @ \o h.waiters[g], !.waiters[g] = <<>>]

\* onopen, lines 420-437, then the connect promise resolves
SessionOpen(g) ==
  /\ micro = <<>>
  /\ sess[g] = "connecting"
  /\ Apply(Settle([Cur EXCEPT !.audioContextRefs.streamSource = g,
                              !.audioContextRefs.scriptProcessor = g,
                              !.nodes[g] = "connected",
                              !.sess[g] = "open"], g, "resolved"),
           "onopen")
  /\ UNCHANGED <<mounted, aside>>

\* The connect promise of line 410 rejects; nothing awaits it in startConversation.
ConnectReject(g) ==
  /\ micro = <<>>
  /\ sess[g] = "connecting"
  /\ Apply(Settle([Cur EXCEPT !.sess[g] = "failed"], g, "rejected"), "connectRejected")
  /\ UNCHANGED <<mounted, aside>>

\* onerror, lines 477-481
OnError(g) ==
  /\ micro = <<>>
  /\ sess[g] = "open"
  /\ CanSuspend
  /\ Apply(stopConversation([Cur EXCEPT !.error = "conversation", !.sess[g] = "errored"],
                            "error"),
           "onerror")
  /\ UNCHANGED <<mounted, aside>>

\* onclose, lines 482-484: the transport closed, of its own initiative (the session
\* was open), after an error, or after session.close().
OnClose(g) ==
  /\ micro = <<>>
  /\ sess[g] \in {"open", "errored", "closing"}
  /\ CanSuspend
  /\ Apply(stopConversation([Cur EXCEPT !.sess[g] = "closed"], "close"),
           CASE sess[g] = "open" -> "oncloseRemote"
             [] sess[g] = "errored" -> "oncloseAfterError"
             [] OTHER -> "oncloseRequested")
  /\ UNCHANGED <<mounted, aside>>

\* The stop button, line 722, is rendered only while isConversing is true.
StopClick ==
  /\ mounted /\ isConversing /\ micro = <<>>
  /\ CanSuspend
  /\ Apply(stopConversation(Cur, "user"), "stop")
  /\ UNCHANGED <<mounted, aside>>

\* The unmount effect, lines 215-219
Unmount ==
  /\ mounted /\ micro = <<>>
  /\ CanSuspend
  /\ mounted' = FALSE
  /\ Apply(stopConversation(Cur, "unmount"), "unmount")
  /\ timers' = ClearIntervals(timers)
  /\ UNCHANGED <<clock, codec, isLoading, inputText, requests, isBuilding, isDeploying,
                 captured, arrived>>

\* ------------------------------------------------------------------ onmessage, lines 438-476
\* An inbound message: any combination of an input transcription fragment, an output
\* transcription fragment, the turn-complete flag and an audio payload (audio is the
\* duration of the decoded clip, 0 when the message carries none).
Msg(hasIn, i, hasOut, o, tc, a) ==
  [hasInput |-> hasIn, input |-> i, hasOutput |-> hasOut, output |-> o,
   turnComplete |-> tc, audio |-> a]

\* lines 450-451 with the two pushes exchanged
NewItemsAiFirst(userInput, aiOutput) ==
  (IF aiOutput # <<>> THEN <<[speaker |-> "AI", text |-> aiOutput]>> ELSE <<>>)
  \o (IF userInput # <<>> THEN <<[speaker |-> "User", text |-> userInput]>> ELSE <<>>)

\* lines 449-451
NewItems(userInput, aiOutput) ==
  (IF userInput # <<>> THEN <<[speaker |-> "User", text |-> userInput]>> ELSE <<>>)
  \o (IF aiOutput # <<>> THEN <<[speaker |-> "AI", text |-> aiOutput]>> ELSE <<>>)

\* lines 439-444
Accumulate(h, m) ==
  LET h1 == IF m.hasInput THEN [h EXCEPT !.transcriptRefs.input = @ \o m.input] ELSE h
  IN IF m.hasOutput THEN [h1 EXCEPT !.transcriptRefs.output = @ \o m.output] ELSE h1

\* lines 445-459 without lines 457-458: the buffers are not cleared.
TurnCompleteKeepsBuffers(h) ==
  [h EXCEPT !.isListening = FALSE,
            !.transcript = @ \o NewItems(Trim(h.transcriptRefs.input),
                                         Trim(h.transcriptRefs.output))]

\* lines 445-459
TurnComplete(h) ==
  [h EXCEPT !.isListening = FALSE,
            !.transcript = @ \o NewItems(Trim(h.transcriptRefs.input),
                                         Trim(h.transcriptRefs.output)),
            !.transcriptRefs = [input |-> <<>>, output |-> <<>>]]

\* lines 461-465 with the continuation run ahead of the continuations already queued
ScheduleBeginAhead(h, g, dur) ==
  LET out == h.audioContextRefs.output
  IN [h EXCEPT !.nextStartTimeRef = Max(@, clock[out]),
               !.micro = <<MsgCont(g, out, dur, clock[out])>> \o @]

\* lines 461-465, to the await of decodeAudioData
ScheduleBegin(h, g, dur) ==
  LET out == h.audioContextRefs.output
  IN [h EXCEPT !.nextStartTimeRef = Max(@, clock[out]),
               !.micro = Append(@, MsgCont(g, out, dur, clock[out]))]

\* lines 466-474, after the await
ScheduleResume(h, k) ==
  LET clip == [out |-> k.out, g |-> k.g, start |-> h.nextStartTimeRef, dur |-> k.dur,
               now |-> k.now, st |-> "scheduled"]
  IN [h EXCEPT !.clips = Append(@, clip),
               !.nextStartTimeRef = @ + k.dur,
               !.audioContextRefs.sources = @ \cup {Len(h.clips) + 1}]

onmessage(h, g, m) ==
  LET h1 == Accumulate(h, m)
      h2 == IF m.turnComplete THEN TurnComplete(h1) ELSE h1
  IN IF m.audio > 0 THEN ScheduleBegin(h2, g, m.audio) ELSE h2

PendingClips == Len(SelectSeq(micro, LAMBDA k : k.k = "msg"))

OnMessage(g, m, maxClips) ==
  /\ micro = <<>>
  /\ sess[g] = "open"
  /\ m.audio > 0 => Len(clips) + PendingClips < maxClips
  /\ LET h == onmessage(Cur, g, m)
     IN /\ Len(h.transcriptRefs.input) <= MaxBuf
        /\ Len(h.transcriptRefs.output) <= MaxBuf
        /\ Len(h.transcript) <= MaxItems
        /\ Apply(h, IF m.turnComplete THEN "turnComplete" ELSE "message")
  /\ UNCHANGED <<mounted, aside>>

\* The then-callback of line 430 runs: the frame goes out on the session.
SendResume(h, k) == [h EXCEPT !.sent[k.g] = Append(@, k.frame)]

\* The continuation at the head of the microtask queue runs; e is what the
\* environment does to the close calls a resumed stopConversation makes.
Resume(e) ==
  /\ micro # <<>>
  /\ LET k == Head(micro)
         h == [Cur EXCEPT !.micro = Tail(@), !.env = e]
     IN CASE k.k = "stop" -> Apply(StopResume(h, k), "stopResume")
          [] k.k = "msg" -> e = NoFailure /\ Apply(ScheduleResume(h, k), "scheduled")
          [] OTHER -> e = NoFailure /\ Apply(SendResume(h, k), "sent")
  /\ UNCHANGED <<mounted, aside>>

Microtask == Resume(NoFailure)

\* The 'ended' listener of a clip, lines 469-471: the clip played to its end or was stopped.
ClipEnded(c) ==
  /\ micro = <<>>
  /\ c \in 1..Len(clips)
  /\ \/ clips[c].st = "stopped"
     \/ clips[c].st = "scheduled" /\ clock[clips[c].out] >= clips[c].start + clips[c].dur
  /\ Apply([Cur EXCEPT !.clips[c].st = "ended", !.audioContextRefs.sources = @ \ {c}],
           "ended")
  /\ UNCHANGED <<mounted, aside>>

\* The clock of a running output context advances.
Tick(g) ==
  /\ micro = <<>>
  /\ outCtx[g] = "running"
  /\ clock[g] < MaxTime
  /\ clock' = [clock EXCEPT ![g] = @ + 1]
  /\ UNCHANGED <<mounted, isConversing, isListening, error, transcript, sessionPromiseRef,
                 audioContextRefs, transcriptRefs, nextStartTimeRef, startPc, track,
                 inCtx, outCtx, nodes, promise, sess, clips, micro, waiters, codec,
                 textVars, captured, sent, arrived>>
  /\ last' = Did("tick")

\* ------------------------------------------------------------------ specifications
NoCodec == [pc |-> "off", data |-> <<>>, blob |-> <<>>, bytes |-> <<>>, out |-> <<>>]

InitSession ==
  /\ mounted = TRUE
  /\ isConversing = FALSE
  /\ isListening = FALSE
  /\ error = "none"
  /\ transcript = InitialTranscript
  /\ sessionPromiseRef = Null
  /\ audioContextRefs = NoRefs
  /\ transcriptRefs = [input |-> <<>>, output |-> <<>>]
  /\ nextStartTimeRef = 0
  /\ startPc = [g \in G |-> "unused"]
  /\ track = [g \in G |-> "none"]
  /\ inCtx = [g \in G |-> "none"]
  /\ outCtx = [g \in G |-> "none"]
  /\ nodes = [g \in G |-> "none"]
  /\ promise = [g \in G |-> "none"]
  /\ sess = [g \in G |-> "none"]
  /\ clips = <<>>
  /\ clock = [g \in G |-> 0]
  /\ micro = <<>>
  /\ waiters = [g \in G |-> <<>>]
  /\ last = Did("init")
  /\ isLoading = FALSE
  /\ inputText = <<>>
  /\ requests = <<>>
  /\ isBuilding = FALSE
  /\ isDeploying = FALSE
  /\ timers = [build |-> "none", deploy |-> "none"]
  /\ captured = 0
  /\ sent = [g \in G |-> <<>>]
  /\ arrived = <<>>

Init == InitSession /\ codec = NoCodec

MicOutcomes == {"ok", "denied", "throwInput", "throwOutput"}

\* The messages of the lifecycle specification: a bare clip.
LifecycleMessages == {Msg(FALSE, <<>>, FALSE, <<>>, FALSE, 1)}

\* The session lifecycle under every outcome of the environment.
Next ==
  \/ StartCall
  \/ \E g \in G, o \in MicOutcomes : MicSettle(g, o)
  \/ \E g \in G : SessionOpen(g)
  \/ \E g \in G : ConnectReject(g)
  \/ \E g \in G : OnError(g)
  \/ \E g \in G : OnClose(g)
  \/ StopClick
  \/ Unmount
  \/ \E g \in G, m \in LifecycleMessages : OnMessage(g, m, MaxLifeClips)
  \/ Microtask
  \/ \E c \in 1..MaxClips : ClipEnded(c)

Spec == Init /\ [][Next]_vars


\* ------------------------------------------------------------------ lifecycle properties
\* What start g acquired and is still active.
StreamLive(g) == track[g] = "live"
ContextOpen(g) == inCtx[g] = "running" \/ outCtx[g] = "running"
SessionActive(g) == sess[g] \in {"connecting", "open"}
Holds(g) == StreamLive(g) \/ ContextOpen(g) \/ SessionActive(g)

InCalls(c) == \E i \in 1..Len(last.calls) : last.calls[i] = c

\* C2: when stop() was called while start() awaited the microphone permission, then
\* once the permission request has settled and start() has run to its end nothing
\* that start acquired is active: no live stream, no open context, no pending or
\* open session.
C2_StopDuringMicLeavesNothing ==
  [][\A g \in G :
       (startPc[g] = "micStop" /\ startPc'[g] \in {"done", "failed"})
         => ~(StreamLive(g) \/ ContextOpen(g) \/ SessionActive(g))']_vars

\* C3: in every reachable state at most one streaming session is pending or open, at
\* most one microphone stream is live and at most one pair of audio contexts is open.
C3_SingleActiveSession ==
  /\ Cardinality({g \in G : SessionActive(g)}) <= 1
  /\ Cardinality({g \in G : StreamLive(g)}) <= 1
  /\ Cardinality({g \in G : ContextOpen(g)}) <= 1

\* C4: a stopConversation that runs to its end right after another one ran to its
\* end (no start, no other step in between) makes no release call again.
C4_SecondStopReleasesNothing ==
  [][(last.stopped # <<>> /\ last'.stopped # <<>>) => last'.calls = <<>>]_vars

\* C6: whichever path invoked it (user stop, remote error, remote close, unmount),
\* when stopConversation has run to its end the session reference is null, close was
\* requested on the session it awaited, the referenced stream's track is stopped, the
\* referenced nodes are disconnected, both referenced contexts are closed, the
\* playback set is empty and isConversing is false.
Released ==
  LET r == audioContextRefs
  IN /\ sessionPromiseRef = Null
     /\ r.stream # Null => track[r.stream] = "ended"
     /\ r.scriptProcessor # Null => nodes[r.scriptProcessor] = "disconnected"
     /\ r.streamSource # Null => nodes[r.streamSource] = "disconnected"
     /\ r.input # Null => inCtx[r.input] = "closed"
     /\ r.output # Null => outCtx[r.output] = "closed"
     /\ r.sources = {}
     /\ \A c \in 1..Len(clips) : InCalls(<<"source.stop", c>>) => clips[c].st # "scheduled"
     /\ ~isConversing

C6_ExitPathsRelease ==
  \A i \in 1..Len(last.stopped) :
    LET e == last.stopped[i]
    IN /\ e.origin \in {"user", "error", "close", "unmount"}
       /\ Released
       /\ (e.g # Null /\ promise[e.g] = "resolved")
            => (InCalls(<<"session.close", e.g>>) /\ sess[e.g] # "open")

\* A remote close ran the release of an open session with a scheduled clip.
C6_Witness ==
  /\ last.stopped # <<>>
  /\ last.stopped[1].origin = "close"
  /\ last.stopped[1].g # Null
  /\ InCalls(<<"session.close", last.stopped[1].g>>)
  /\ InCalls(<<"track.stop", audioContextRefs.stream>>)
  /\ InCalls(<<"scriptProcessor.disconnect", audioContextRefs.scriptProcessor>>)
  /\ InCalls(<<"output.close", audioContextRefs.output>>)
  /\ \E c \in 1..Len(clips) : InCalls(<<"source.stop", c>>)

\* C7: when onerror has run, or onclose has run for a session the transport closed of
\* its own initiative, a user-visible error message is set.
C7_TransportEndSurfacesError ==
  last.op \in {"onerror", "oncloseRemote"} => error # "none"

\* C8: when start g fails (permission denied, or a later step of start throwing),
\* then as start returns nothing it acquired remains: no live stream, no open
\* context, no session reference; and the UI is idle with the error message set.
C8_FailedStartLeavesNothing ==
  [][\A g \in G :
       (startPc[g] \in {"mic", "micStop"} /\ startPc'[g] = "failed")
         => (/\ ~(StreamLive(g) \/ ContextOpen(g))
             /\ sessionPromiseRef # g
             /\ ~isListening /\ ~isConversing /\ error = "mic")']_vars

\* C9: a failure ends the session with an error. Once the handling of a failure is
\* over (a denied microphone, a rejected connect promise, a stop invoked by onerror
\* that ran to its end) and no continuation is pending, the manager is idle
\* (isConversing false, nothing the failed start acquired is active) with the error
\* message set. (A throwing AudioContext constructor is the case of C8.)
FailureHandled(g) ==
  \/ last.op = "micDenied" /\ startPc[g] = "failed"
  \/ last.op = "connectRejected" /\ promise[g] = "rejected"
  \/ \E i \in 1..Len(last.stopped) :
       last.stopped[i].origin = "error" /\ last.stopped[i].g = g

C9_FailureEndsIdleWithError ==
  \A g \in G :
    (FailureHandled(g) /\ micro = <<>> /\ waiters[g] = <<>>)
      => (~isConversing /\ error # "none" /\ ~Holds(g))


\* ------------------------------------------------------------------ voice turns
Fragments == {<<"a">>, <<" ">>}

\* Messages carrying transcription fragments and the turn-complete flag, no audio.
TurnMessages ==
  {Msg(i # <<>>, i, o # <<>>, o, tc, 0) :
     i \in Fragments \cup {<<>>}, o \in Fragments \cup {<<>>}, tc \in BOOLEAN}

\* A voice session exchanging transcription messages over its turns.
NextTurn ==
  \/ StartCall
  \/ \E g \in G : MicSettle(g, "ok")
  \/ \E g \in G : SessionOpen(g)
  \/ \E g \in G, m \in TurnMessages : OnMessage(g, m, 0)

SpecTurn == Init /\ [][NextTurn]_vars

IsBlank(s) == \A i \in 1..Len(s) : s[i] = " "

\* t is s without its leading and trailing whitespace.
IsTrimOf(t, s) ==
  \E a \in 0..Len(s), b \in 0..Len(s) :
    /\ a + b <= Len(s)
    /\ t = SubSeq(s, a + 1, Len(s) - b)
    /\ IsBlank(SubSeq(s, 1, a))
    /\ IsBlank(SubSeq(s, Len(s) - b + 1, Len(s)))
    /\ t # <<>> => (t[1] # " " /\ t[Len(t)] # " ")

Item(speaker, t) == IF t = <<>> THEN <<>> ELSE <<[speaker |-> speaker, text |-> t]>>

\* C1: when a message with the turn-complete flag is handled, the transcript gains
\* exactly a User item holding the trimmed input buffer iff that is non-empty, then an
\* AI item holding the trimmed output buffer iff that is non-empty, and both turn
\* buffers are empty afterwards. (The buffers include the fragments of the message.)
C1_TurnCommit ==
  [][\A g \in G, m \in TurnMessages :
       (last'.op = "turnComplete" /\ m.turnComplete /\ OnMessage(g, m, 0)) =>
         LET bi == transcriptRefs.input \o (IF m.hasInput THEN m.input ELSE <<>>)
             bo == transcriptRefs.output \o (IF m.hasOutput THEN m.output ELSE <<>>)
         IN /\ \E a1 \in 1..Len(bi) + 1, a2 \in 0..Len(bi),
                 b1 \in 1..Len(bo) + 1, b2 \in 0..Len(bo) :
                 LET ti == SubSeq(bi, a1, a2)
                     to == SubSeq(bo, b1, b2)
                 IN /\ IsTrimOf(ti, bi)
                    /\ IsTrimOf(to, bo)
                    /\ transcript' = transcript \o Item("User", ti) \o Item("AI", to)
            /\ transcriptRefs' = [input |-> <<>>, output |-> <<>>]]_vars

\* A turn with padded fragments on both sides was committed as User then AI.
C1_Witness ==
  /\ last.op = "turnComplete"
  /\ Len(transcript) = Len(InitialTranscript) + 2
  /\ transcript[2] = [speaker |-> "User", text |-> <<"a">>]
  /\ transcript[3] = [speaker |-> "AI", text |-> <<"a">>]
  /\ transcriptRefs = [input |-> <<>>, output |-> <<>>]

\* ------------------------------------------------------------------ playback
\* Messages carrying an audio payload alone.
PlayMessages == {Msg(FALSE, <<>>, FALSE, <<>>, FALSE, d) : d \in 1..MaxDur}

\* One or more voice sessions receiving audio while the output clocks advance.
NextPlay ==
  \/ StartCall
  \/ \E g \in G : MicSettle(g, "ok")
  \/ \E g \in G : SessionOpen(g)
  \/ StopClick
  \/ \E g \in G, m \in PlayMessages : OnMessage(g, m, MaxClips)
  \/ Microtask
  \/ \E g \in G : Tick(g)
  \/ \E c \in 1..MaxClips : ClipEnded(c)

SpecPlay == Init /\ [][NextPlay]_vars

\* C5: the clips of one session are scheduled at non-decreasing start times, each at
\* or after the start plus the duration of the session's previous clip, and each at
\* or after the output clock read when its message was handled.
C5_SequentialPlayback ==
  \A j \in 1..Len(clips) :
    /\ clips[j].start >= clips[j].now
    /\ \A i \in 1..(j - 1) :
         clips[i].g = clips[j].g => clips[j].start >= clips[i].start + clips[i].dur


\* ------------------------------------------------------------------ audio helpers, lines 69-117
\* A float sample is the integer n standing for n / (PcmScale * Sub); a decoded
\* sample is the integer v standing for v / PcmScale.
PcmScale == 32768

TruncDiv(n, d) == IF n >= 0 THEN n \div d ELSE -((-n) \div d)

\* The store into an Int16Array element: truncation toward zero, then modulo 2^16.
ToInt16(x) == LET m == x % 65536 IN IF m >= 32768 THEN m - 65536 ELSE m

\* line 111: int16[i] = data[i] * 32768
Int16Store(n) == ToInt16(TruncDiv(n, Sub))

\* new Uint8Array(int16.buffer): the two bytes of each element, low byte first
RECURSIVE Int16Bytes(_)
Int16Bytes(a) ==
  IF a = <<>> THEN <<>>
  ELSE LET u == Head(a) % 65536 IN <<u % 256, u \div 256>> \o Int16Bytes(Tail(a))

\* new Int16Array(data.buffer), line 85
RECURSIVE BytesInt16(_)
BytesInt16(b) ==
  IF Len(b) < 2 THEN <<>>
  ELSE <<ToInt16(b[1] + 256 * b[2])>> \o BytesInt16(SubSeq(b, 3, Len(b)))

\* btoa over the binary string of the bytes: a base64 text is the sequence of its
\* 6-bit digits, 64 standing for the padding character '='.
RECURSIVE encode(_)
encode(b) ==
  CASE Len(b) = 0 -> <<>>
    [] Len(b) = 1 -> <<b[1] \div 4, (b[1] % 4) * 16, 64, 64>>
    [] Len(b) = 2 -> <<b[1] \div 4, (b[1] % 4) * 16 + b[2] \div 16, (b[2] % 16) * 4, 64>>
    [] OTHER -> <<b[1] \div 4, (b[1] % 4) * 16 + b[2] \div 16,
                  (b[2] % 16) * 4 + b[3] \div 64, b[3] % 64>>
                \o encode(SubSeq(b, 4, Len(b)))

\* atob and the byte copy of lines 70-76
RECURSIVE decode(_)
decode(t) ==
  IF Len(t) < 4 THEN <<>>
  ELSE LET b1 == t[1] * 4 + t[2] \div 16
           b2 == (t[2] % 16) * 16 + t[3] \div 4
           b3 == (t[3] % 4) * 64 + t[4]
       IN CASE t[3] = 64 -> <<b1>>
            [] t[4] = 64 -> <<b1, b2>>
            [] OTHER -> <<b1, b2, b3>> \o decode(SubSeq(t, 5, Len(t)))

\* lines 107-117
createBlob(data) ==
  [data |-> encode(Int16Bytes([i \in 1..Len(data) |-> Int16Store(data[i])])),
   mimeType |-> "audio/pcm;rate=16000"]

\* lines 79-96 with one channel: channelData[i] = dataInt16[i] / 32768.0
decodeAudioData(data) == BytesInt16(data)

Anchors == {0, 256, -256, PcmScale, -PcmScale}

\* The samples of [-1.0, 1.0] near zero, near a byte boundary and near full scale.
Samples ==
  {n \in -(PcmScale * Sub)..(PcmScale * Sub) :
     \E a \in Anchors : n - a * Sub \in -Edge..Edge}

SampleArrays == UNION {[1..l -> Samples] : l \in 1..MaxSamples}

InitCodec ==
  /\ InitSession
  /\ \E d \in SampleArrays :
       codec = [pc |-> "data", data |-> d, blob |-> <<>>, bytes |-> <<>>, out |-> <<>>]

UnchangedSession ==
  UNCHANGED <<mounted, isConversing, isListening, error, transcript, sessionPromiseRef,
              audioContextRefs, transcriptRefs, nextStartTimeRef, startPc, track, inCtx,
              outCtx, nodes, promise, sess, clips, clock, micro, waiters, last,
              textVars, captured, sent, arrived>>

CodecCreateBlob ==
  /\ codec.pc = "data"
  /\ codec' = [codec EXCEPT !.pc = "blob", !.blob = createBlob(codec.data).data]
  /\ UnchangedSession

CodecDecode ==
  /\ codec.pc = "blob"
  /\ codec' = [codec EXCEPT !.pc = "bytes", !.bytes = decode(codec.blob)]
  /\ UnchangedSession

CodecDecodeAudioData ==
  /\ codec.pc = "bytes"
  /\ codec' = [codec EXCEPT !.pc = "done", !.out = decodeAudioData(codec.bytes)]
  /\ UnchangedSession

NextCodec == CodecCreateBlob \/ CodecDecode \/ CodecDecodeAudioData

SpecCodec == InitCodec /\ [][NextCodec]_vars

Abs(x) == IF x >= 0 THEN x ELSE -x

\* C10: createBlob followed by decode and decodeAudioData gives back every sample of
\* [-1.0, 1.0] within 1/32768 of its value.
C10_RoundTrip ==
  codec.pc = "done" =>
    /\ Len(codec.out) = Len(codec.data)
    /\ \A i \in 1..Len(codec.data) : Abs(codec.out[i] * Sub - codec.data[i]) <= Sub

\* The same for the samples of [-1.0, 1.0): full scale positive excluded.
C10_RoundTripBelowFullScale ==
  codec.pc = "done" =>
    /\ Len(codec.out) = Len(codec.data)
    /\ \A i \in 1..Len(codec.data) :
         codec.data[i] < PcmScale * Sub => Abs(codec.out[i] * Sub - codec.data[i]) <= Sub


\* ------------------------------------------------------------------ handleSendMessage, lines 221-247
\* What the text handlers leave alone of the voice session.
voiceVars ==
  <<mounted, isConversing, isListening, sessionPromiseRef, audioContextRefs,
    transcriptRefs, nextStartTimeRef, startPc, track, inCtx, outCtx, nodes, promise,
    sess, clips, clock, micro, waiters, codec, captured, sent, arrived>>

\* What can be typed into the input box.
Texts == UNION {[1..l -> {"a", " "}] : l \in 0..MaxText}

\* The text of the WAF button, line 646
WafText == <<"w">>

\* response.text
Replies == {<<"r">>}

\* The text of the entry of line 243
ErrorNotice == <<"e">>

Pending == {i \in 1..Len(requests) : requests[i].state = "pending"}

\* line 222: overrideText || inputText (the empty string and undefined are falsy)
TextToSend(overrideText) == IF overrideText # <<>> THEN overrideText ELSE inputText

\* line 239
ThenItems(tr, reply) == Append(tr, [speaker |-> "AI", text |-> reply])

\* the catch block with the last entry removed instead of line 243
CatchRollsBack(tr) == SubSeq(tr, 1, Len(tr) - 1)

\* the catch block without line 243
CatchAppendsNothing(tr) == tr

\* line 243
CatchItems(tr) == Append(tr, [speaker |-> "AI", text |-> ErrorNotice])

\* the finally block without line 245
FinallyKeepsLoading(l) == l

\* line 245
Finally(l) == FALSE

\* lines 222-232, to the await of generateContent. A request remembers where its
\* entries went in the transcript (userAt, aiAt; 0: none yet).
handleSendMessage(overrideText) ==
  LET textToSend == TextToSend(overrideText)
  IN IF Trim(textToSend) = <<>>
     THEN /\ last' = Did("sendBlank")
          /\ UNCHANGED <<inputText, transcript, isLoading, error, requests>>
     ELSE /\ Len(requests) < MaxReq
          /\ Len(transcript) + Cardinality(Pending) + 2 <= MaxLog
          /\ inputText' = <<>>
          /\ transcript' = Append(transcript, [speaker |-> "User", text |-> textToSend])
          /\ isLoading' = TRUE
          /\ error' = "none"
          /\ requests' = Append(requests, [text |-> textToSend, state |-> "pending",
                                            userAt |-> Len(transcript) + 1, aiAt |-> 0])
          /\ last' = Did("send")

\* onChange of the textarea, line 703; the textarea is disabled while conversing.
TypeText(t) ==
  /\ mounted /\ ~isConversing /\ micro = <<>>
  /\ inputText' = t
  /\ last' = Did("type")
  /\ UNCHANGED <<voiceVars, transcript, error, isLoading, requests, isBuilding,
                 isDeploying, timers>>

\* The send button, line 732, is rendered while not conversing and the text is not blank.
SendClick ==
  /\ mounted /\ ~isConversing /\ micro = <<>>
  /\ Trim(inputText) # <<>>
  /\ handleSendMessage(<<>>)
  /\ UNCHANGED <<voiceVars, isBuilding, isDeploying, timers>>

\* The Enter key in the textarea, lines 709-714
EnterKey ==
  /\ mounted /\ ~isConversing /\ micro = <<>>
  /\ handleSendMessage(<<>>)
  /\ UNCHANGED <<voiceVars, isBuilding, isDeploying, timers>>

\* The WAF button, lines 645-654
WafClick ==
  /\ mounted /\ micro = <<>>
  /\ handleSendMessage(WafText)
  /\ UNCHANGED <<voiceVars, isBuilding, isDeploying, timers>>

\* generateContent of request i resolves with reply: lines 239 and 245
SendResolved(i, reply) ==
  /\ micro = <<>>
  /\ i \in Pending
  /\ transcript' = ThenItems(transcript, reply)
  /\ isLoading' = Finally(isLoading)
  /\ requests' = [requests EXCEPT ![i].state = "ok", ![i].aiAt = Len(transcript')]
  /\ last' = Did("completed")
  /\ UNCHANGED <<voiceVars, error, inputText, isBuilding, isDeploying, timers>>

\* generateContent of request i rejects: lines 240-245
SendRejected(i) ==
  /\ micro = <<>>
  /\ i \in Pending
  /\ error' = "text"
  /\ transcript' = CatchItems(transcript)
  /\ isLoading' = Finally(isLoading)
  /\ requests' = [requests EXCEPT ![i].state = "failed",
                                  ![i].aiAt = IF Len(transcript') > Len(transcript)
                                              THEN Len(transcript') ELSE 0]
  /\ last' = Did("failed")
  /\ UNCHANGED <<voiceVars, inputText, isBuilding, isDeploying, timers>>

\* The text chat alone, with overlapping requests.
NextText ==
  \/ \E t \in Texts : TypeText(t)
  \/ SendClick
  \/ EnterKey
  \/ WafClick
  \/ \E i \in 1..MaxReq, reply \in Replies : SendResolved(i, reply)
  \/ \E i \in 1..MaxReq : SendRejected(i)

SpecText == Init /\ [][NextText]_vars

\* C11: a send of a non-blank text appends {User, text}, sets the loading flag and
\* issues the request; a completion appends {AI, completion text}; a failure keeps
\* the User entry of its request and everything before it and sets the error flag;
\* both leave the loading flag false; a send of a blank text changes nothing.
C11_TextSend ==
  [][/\ last'.op = "send" =>
          LET r == requests'[Len(requests')]
          IN /\ Len(requests') = Len(requests) + 1
             /\ r.text \in {inputText, WafText}
             /\ ~IsBlank(r.text)
             /\ transcript' = Append(transcript, [speaker |-> "User", text |-> r.text])
             /\ isLoading'
     /\ last'.op = "completed" =>
          /\ \E reply \in Replies :
               transcript' = Append(transcript, [speaker |-> "AI", text |-> reply])
          /\ ~isLoading'
     /\ last'.op = "failed" =>
          /\ \A i \in Pending :
               requests'[i].state = "failed" =>
                 /\ Len(transcript') >= requests[i].userAt
                 /\ transcript'[requests[i].userAt] =
                      [speaker |-> "User", text |-> requests[i].text]
          /\ Len(transcript') >= Len(transcript)
          /\ SubSeq(transcript', 1, Len(transcript)) = transcript
          /\ error' # "none"
          /\ ~isLoading'
     /\ last'.op = "sendBlank" =>
          /\ IsBlank(inputText)
          /\ UNCHANGED <<voiceVars, textVars, transcript, error>>]_vars

\* One request completed and another failed, each after its User entry.
C11_Witness ==
  /\ \E i \in 1..Len(requests) : requests[i].state = "ok"
  /\ \E i \in 1..Len(requests) :
       /\ requests[i].state = "failed"
       /\ transcript[requests[i].userAt] = [speaker |-> "User", text |-> requests[i].text]
  /\ Pending = {}
  /\ ~isLoading
  /\ error = "text"

\* C12 as stated: a failing request adds no AI entry to the transcript.
C12_FailureAppendsNoAiEntry ==
  [][last'.op = "failed" => transcript' = transcript]_vars

\* C12 amended: a failing request adds no completion text; it adds exactly one AI
\* entry, the fixed error notice, after the transcript it finds.
C12_FailureAppendsErrorNotice ==
  [][last'.op = "failed" =>
       transcript' = Append(transcript, [speaker |-> "AI", text |-> ErrorNotice])]_vars

\* A request failed: the User entry is followed by the error notice.
C12_Witness ==
  /\ last.op = "failed"
  /\ Len(transcript) = Len(InitialTranscript) + 2
  /\ transcript[2].speaker = "User"
  /\ transcript[3] = [speaker |-> "AI", text |-> ErrorNotice]

\* C19: the AI entry of a request immediately follows the User entry of that request,
\* and the loading flag is true while a request is outstanding.
C19_RequestReplyPairing ==
  /\ \A i \in 1..Len(requests) :
       requests[i].aiAt # 0 => requests[i].aiAt = requests[i].userAt + 1
  /\ Pending # {} => isLoading


\* ------------------------------------------------------------------ simulated pipelines and exports, lines 249-389
\* The texts of the entries of lines 255, 276, 291 and 316
DeployRequest == <<"d">>
DeployReport == <<"D">>
BuildRequest == <<"b">>
BuildReport == <<"B">>

\* The sidebar actions are rendered while the component is mounted.
\* handleDeployToPages, lines 249-258: the User entry, then the interval starts
handleDeployToPages ==
  /\ mounted /\ micro = <<>>
  /\ ~isDeploying
  /\ Len(transcript) + Cardinality(Pending) + 2 <= MaxLog
  /\ isDeploying' = TRUE
  /\ transcript' = Append(transcript, [speaker |-> "User", text |-> DeployRequest])
  /\ timers' = [timers EXCEPT !.deploy = "interval"]
  /\ last' = Did("deploy")
  /\ UNCHANGED <<voiceVars, error, isLoading, inputText, requests, isBuilding>>

\* The interval callback of lines 258-282 that takes progress to 100: it clears the
\* interval and sets the timeout of line 273. (Earlier callbacks only set the
\* progress and status displays.)
DeployInterval ==
  /\ micro = <<>>
  /\ timers.deploy = "interval"
  /\ timers' = [timers EXCEPT !.deploy = "timeout"]
  /\ last' = Did("deployProgress")
  /\ UNCHANGED <<voiceVars, transcript, error, isLoading, inputText, requests, isBuilding,
                 isDeploying>>

\* The timeout callback of lines 273-280
DeployTimeout ==
  /\ micro = <<>>
  /\ timers.deploy = "timeout"
  /\ transcript' = Append(transcript, [speaker |-> "AI", text |-> DeployReport])
  /\ isDeploying' = FALSE
  /\ timers' = [timers EXCEPT !.deploy = "none"]
  /\ last' = Did("deployed")
  /\ UNCHANGED <<voiceVars, error, isLoading, inputText, requests, isBuilding>>

\* handleBuildApk, lines 285-294
handleBuildApk ==
  /\ mounted /\ micro = <<>>
  /\ ~isBuilding
  /\ Len(transcript) + Cardinality(Pending) + 2 <= MaxLog
  /\ isBuilding' = TRUE
  /\ transcript' = Append(transcript, [speaker |-> "User", text |-> BuildRequest])
  /\ timers' = [timers EXCEPT !.build = "interval"]
  /\ last' = Did("build")
  /\ UNCHANGED <<voiceVars, error, isLoading, inputText, requests, isDeploying>>

\* The interval callback of lines 294-322 that takes progress to 100
BuildInterval ==
  /\ micro = <<>>
  /\ timers.build = "interval"
  /\ timers' = [timers EXCEPT !.build = "timeout"]
  /\ last' = Did("buildProgress")
  /\ UNCHANGED <<voiceVars, transcript, error, isLoading, inputText, requests, isBuilding,
                 isDeploying>>

\* The timeout callback of lines 313-320
BuildTimeout ==
  /\ micro = <<>>
  /\ timers.build = "timeout"
  /\ transcript' = Append(transcript, [speaker |-> "AI", text |-> BuildReport])
  /\ isBuilding' = FALSE
  /\ timers' = [timers EXCEPT !.build = "none"]
  /\ last' = Did("built")
  /\ UNCHANGED <<voiceVars, error, isLoading, inputText, requests, isDeploying>>

\* handleExportPDF / handleExportWord, lines 325-389: the transcript is read
Export(kind) ==
  /\ mounted /\ micro = <<>>
  /\ last' = Did(kind)
  /\ UNCHANGED <<voiceVars, textVars, transcript, error>>

\* Messages of a voice turn: an input fragment, then the turn-complete flag.
LogMessages ==
  {Msg(TRUE, <<"a">>, FALSE, <<>>, FALSE, 0), Msg(FALSE, <<>>, FALSE, <<>>, TRUE, 0)}

\* Every operation that writes or reads the transcript.
NextLog ==
  \/ WafClick
  \/ \E i \in 1..MaxReq, reply \in Replies : SendResolved(i, reply)
  \/ \E i \in 1..MaxReq : SendRejected(i)
  \/ handleDeployToPages
  \/ DeployInterval
  \/ DeployTimeout
  \/ handleBuildApk
  \/ BuildInterval
  \/ BuildTimeout
  \/ \E kind \in {"exportPDF", "exportWord"} : Export(kind)
  \/ StartCall
  \/ \E g \in G : MicSettle(g, "ok")
  \/ \E g \in G : SessionOpen(g)
  \/ \E g \in G, m \in LogMessages : OnMessage(g, m, 0)
  \/ StopClick
  \/ Microtask

SpecLog == Init /\ [][NextLog]_vars

\* C13: every step leaves the entries of the transcript unchanged and in place: the
\* transcript before the step is a prefix of the transcript after it.
C13_TranscriptAppendOnly ==
  [][/\ Len(transcript') >= Len(transcript)
     /\ SubSeq(transcript', 1, Len(transcript)) = transcript]_vars

\* A voice turn, a text send that failed and a build have each added their entries.
C13_Witness ==
  /\ Len(transcript) = MaxLog
  /\ \E i \in 1..Len(requests) : requests[i].state = "failed"
  /\ \E i \in 1..Len(transcript) : transcript[i] = [speaker |-> "User", text |-> <<"a">>]
  /\ \E i \in 1..Len(transcript) : transcript[i] = [speaker |-> "User", text |-> BuildRequest]
  /\ last.op = "exportPDF"


\* ------------------------------------------------------------------ close-time failures
\* What the environment can do to the close calls of one stopConversation.
Failures ==
  [closeThrows : BOOLEAN, inputCloseRejects : BOOLEAN, outputCloseRejects : BOOLEAN]

\* The session lifecycle with failing close calls and rejected connects.
NextClose ==
  \/ StartCall
  \/ \E g \in G : MicSettle(g, "ok")
  \/ \E g \in G : SessionOpen(g)
  \/ \E g \in G : ConnectReject(g)
  \/ \E g \in G : OnError(g)
  \/ \E g \in G : OnClose(g)
  \/ StopClick
  \/ \E g \in G, m \in LifecycleMessages : OnMessage(g, m, MaxLifeClips)
  \/ \E e \in Failures : Resume(e)
  \/ \E c \in 1..MaxClips : ClipEnded(c)

SpecClose == Init /\ [][NextClose]_vars

\* C14: when a stopConversation resumes from its await and the awaited promise has
\* rejected, or session.close() throws, or a context's close() rejects, it still runs
\* to its end: the referenced track is stopped, the referenced nodes are
\* disconnected, the playback set is empty and its clips are stopped, the session
\* reference is null, isConversing is false, and the error message is left as it was.
C14_CloseFailuresSwallowed ==
  [][(/\ micro # <<>>
      /\ Head(micro).k = "stop"
      /\ last'.op = "stopResume"
      /\ (promise[Head(micro).g] = "rejected" \/ last'.env # NoFailure))
     => (/\ last'.stopped # <<>>
         /\ sessionPromiseRef' = Null
         /\ ~isConversing'
         /\ error' = error
         /\ LET r == audioContextRefs'
            IN /\ r.stream # Null => track'[r.stream] = "ended"
               /\ r.scriptProcessor # Null => nodes'[r.scriptProcessor] = "disconnected"
               /\ r.streamSource # Null => nodes'[r.streamSource] = "disconnected"
               /\ r.sources = {}
               /\ \A c \in audioContextRefs.sources : clips'[c].st # "scheduled")]_vars

\* session.close() threw and both context closes rejected in a stop that released a
\* live track, connected nodes and a scheduled clip.
C14_Witness ==
  /\ last.op = "stopResume"
  /\ last.env = [closeThrows |-> TRUE, inputCloseRejects |-> TRUE,
                 outputCloseRejects |-> TRUE]
  /\ Len(last.logged) = 3
  /\ \E c \in 1..Len(clips) : InCalls(<<"source.stop", c>>) /\ clips[c].st = "stopped"
  /\ InCalls(<<"track.stop", audioContextRefs.stream>>)
  /\ error = "none"


\* ------------------------------------------------------------------ turns of one session
\* C15: handling a message, with or without the turn-complete flag, requests no close
\* and releases nothing: the session, its promise, the track, the contexts, the nodes
\* and the references stay as they were. A message without the flag adds its
\* fragments to the buffers and leaves the transcript alone; a message with the flag
\* commits the buffers with its own fragments and leaves both buffers empty, so the
\* next fragments start a fresh turn.
C15_MultiTurn ==
  [][\A g \in G, m \in TurnMessages :
       (last'.op \in {"turnComplete", "message"} /\ OnMessage(g, m, 0)) =>
         LET bi == transcriptRefs.input \o (IF m.hasInput THEN m.input ELSE <<>>)
             bo == transcriptRefs.output \o (IF m.hasOutput THEN m.output ELSE <<>>)
         IN /\ last'.calls = <<>>
            /\ sess' = sess /\ sess'[g] = "open"
            /\ UNCHANGED <<promise, sessionPromiseRef, track, inCtx, outCtx, nodes,
                           audioContextRefs, isConversing>>
            /\ IF m.turnComplete
               THEN /\ transcriptRefs' = [input |-> <<>>, output |-> <<>>]
                    /\ Len(transcript') <= Len(transcript) + 2
                    /\ SubSeq(transcript', 1, Len(transcript)) = transcript
                    /\ \A i \in (Len(transcript) + 1)..Len(transcript') :
                         transcript'[i].text \in {Trim(bi), Trim(bo)}
               ELSE /\ transcript' = transcript
                    /\ transcriptRefs' = [input |-> bi, output |-> bo]]_vars

\* Two turns of one open session were committed: an AI entry from the first turn,
\* then a User entry from the second.
C15_Witness ==
  /\ last.op = "turnComplete"
  /\ Len(transcript) = Len(InitialTranscript) + 2
  /\ transcript[2] = [speaker |-> "AI", text |-> <<"a">>]
  /\ transcript[3] = [speaker |-> "User", text |-> <<"a">>]
  /\ \E g \in G : sess[g] = "open" /\ sessionPromiseRef = g /\ track[g] = "live"


\* ------------------------------------------------------------------ the order of a stop
\* The place of a release call in the order of lines 204 and 187-195.
Rank(c) ==
  CASE c[1] = "session.close" -> 0
    [] c[1] = "track.stop" -> 1
    [] c[1] = "scriptProcessor.disconnect" -> 2
    [] c[1] = "streamSource.disconnect" -> 3
    [] c[1] = "input.close" -> 4
    [] c[1] = "output.close" -> 5
    [] OTHER -> 6

\* The stopConversation invocations suspended at line 203.
Suspended ==
  Len(SelectSeq(micro, LAMBDA k : k.k = "stop"))
  + Cardinality({<<g, i>> \in G \X (1..MaxWaiters + 1) :
                   i <= Len(waiters[g]) /\ waiters[g][i].k = "stop"})

\* C16: a stopConversation that suspends at its await has set isListening false and
\* has released nothing and left isConversing alone; one that runs to its end makes
\* its release calls in the order session.close, track.stop, scriptProcessor.disconnect,
\* streamSource.disconnect, input.close, output.close, source.stop, with the
\* session.close of the session it awaited first, and isConversing is false only
\* with all of them made and the playback set empty.
C16_StopOrder ==
  [][/\ Suspended' > Suspended =>
          (~isListening' /\ isConversing' = isConversing /\ last'.calls = <<>>)
     /\ last'.stopped # <<>> =>
          /\ \A i, j \in 1..Len(last'.calls) :
               i < j => Rank(last'.calls[i]) < Rank(last'.calls[j])
                        \/ (Rank(last'.calls[i]) = 6 /\ Rank(last'.calls[j]) = 6)
          /\ \A i \in 1..Len(last'.stopped) :
               LET e == last'.stopped[i]
               IN (e.g # Null /\ promise[e.g] = "resolved")
                    => last'.calls[1] = <<"session.close", e.g>>
          /\ ~isConversing'
          /\ Released']_vars

\* A stop ran to its end making each kind of release call.
C16_Witness ==
  /\ last.stopped # <<>>
  /\ Len(last.calls) = 7
  /\ last.calls[1][1] = "session.close"
  /\ last.calls[2][1] = "track.stop"
  /\ last.calls[5][1] = "input.close"
  /\ last.calls[7][1] = "source.stop"
  /\ ~isConversing /\ ~isListening


\* ------------------------------------------------------------------ ordering of frames and messages
\* onaudioprocess, lines 426-434: the frame is handed to the referenced promise.
onaudioprocess(h, f) ==
  LET p == h.sessionPromiseRef
  IN CASE p = Null -> h
       [] h.promise[p] = "resolved" -> [h EXCEPT !.micro = Append(@, SendCont(p, f))]
       [] h.promise[p] = "pending" -> [h EXCEPT !.waiters[p] = Append(@, SendCont(p, f))]
       [] OTHER -> h

\* The script processor of start g, connected by onopen, delivers a frame.
Capture(g) ==
  /\ micro = <<>>
  /\ nodes[g] = "connected"
  /\ captured < MaxFrames
  /\ captured' = captured + 1
  /\ Apply(onaudioprocess(Cur, captured + 1), "capture")
  /\ UNCHANGED <<mounted, clock, codec, textVars, arrived>>

\* Messages carrying one fragment or one clip.
FifoMessages ==
  {Msg(TRUE, f, FALSE, <<>>, FALSE, 0) : f \in Fragments}
  \cup {Msg(FALSE, <<>>, FALSE, <<>>, FALSE, d) : d \in 1..MaxDur}

\* onmessage is called with the next inbound message, also while continuations of
\* earlier messages are still queued.
Arrive(g, m) ==
  /\ sess[g] = "open"
  /\ Len(arrived) < MaxArrived
  /\ m.audio > 0 => Len(clips) + PendingClips < MaxClips
  /\ LET h == onmessage(Cur, g, m)
     IN /\ Len(h.transcriptRefs.input) <= MaxBuf
        /\ Apply(h, "message")
  /\ arrived' = Append(arrived, m)
  /\ UNCHANGED <<mounted, clock, codec, textVars, captured>>

\* Frames out and messages in, over sessions that are started and stopped.
NextFifo ==
  \/ StartCall
  \/ \E g \in G : MicSettle(g, "ok")
  \/ \E g \in G : SessionOpen(g)
  \/ StopClick
  \/ \E g \in G : Capture(g)
  \/ \E g \in G, m \in FifoMessages : Arrive(g, m)
  \/ Microtask

SpecFifo == Init /\ [][NextFifo]_vars

RECURSIVE Concat(_)
Concat(ss) == IF ss = <<>> THEN <<>> ELSE Head(ss) \o Concat(Tail(ss))

ArrivedInputs == [i \in 1..Len(arrived) |-> arrived[i].input]
ArrivedClips == SelectSeq(arrived, LAMBDA m : m.audio > 0)

\* C17: the frames passed to a session are in capture order and none is passed before
\* the session's onopen has run; the input buffer is the concatenation of the
\* fragments in arrival order; the clips are scheduled in the arrival order of their
\* messages.
C17_FifoOrder ==
  /\ \A g \in G :
       /\ \A i, j \in 1..Len(sent[g]) : i < j => sent[g][i] < sent[g][j]
       /\ sent[g] # <<>> => (nodes[g] # "none" /\ sess[g] \notin {"none", "connecting"})
  /\ transcriptRefs.input = Concat(ArrivedInputs)
  /\ Len(clips) <= Len(ArrivedClips)
  /\ \A i \in 1..Len(clips) : clips[i].dur = ArrivedClips[i].audio

\* Two frames went out on one session, and two clips of different durations were
\* scheduled after a fragment of each kind arrived.
C17_Witness ==
  /\ \E g \in G : Len(sent[g]) = 2
  /\ Len(clips) = 2
  /\ clips[1].dur # clips[2].dur
  /\ transcriptRefs.input # <<>>


\* ------------------------------------------------------------------ sessions in succession
\* C18: when startConversation is called, both turn transcription buffers are empty.
C18_BuffersEmptyAtStart ==
  [][last'.op = "start" => transcriptRefs' = [input |-> <<>>, output |-> <<>>]]_vars

\* C20: when a stopConversation resuming from its await clears the session
\* reference, close was requested in that stop on the session the reference held
\* (or its promise had rejected and there is no session).
C20_StopClearsOnlyClosed ==
  [][(/\ last'.op = "stopResume"
      /\ sessionPromiseRef # Null
      /\ sessionPromiseRef' = Null)
     => (\/ promise[sessionPromiseRef] = "rejected"
         \/ \E i \in 1..Len(last'.calls) :
              last'.calls[i] = <<"session.close", sessionPromiseRef>>)]_vars

====
